---- MODULE Spec2Model ----
(***************************************************************************)
(* Model of the Klavis sandbox resource manager                            *)
(* (src/utils/klavis_sandbox.py): one KlavisSandbox session, the remote    *)
(* provisioning service it talks to, and the HTTP requests it issues.      *)
(*                                                                         *)
(* The session is single-threaded.  acquire, get_sandbox_details and       *)
(* release_all are one action each; acquire_for_servers is one action per  *)
(* remote creation request it makes (pc holds its position), and no other  *)
(* operation can start while it runs.  The remote service is the           *)
(* environment: each request's response is chosen from a bounded set.      *)
(*                                                                         *)
(* The module also models the workspace transfer                           *)
(* (src/utils/app_specific/local_dev/local_dev_sandbox.py): the uploads    *)
(* and the download are one action per HTTP request they make (sync_pc     *)
(* holds the position), against a remote sandbox that holds one archive.   *)
(***************************************************************************)
EXTENDS Integers, Sequences, FiniteSets, TLC

(***************************************************************************)
(* Bounds                                                                  *)
(***************************************************************************)
\* sandboxes the remote service creates in one behaviour
MaxSandboxes == 2
\* length of the server_names argument of acquire_for_servers
MaxNames == 3
\* entries of one response's server_urls map
MaxUrls == 2
\* members of an archive the remote sandbox holds before any upload
MaxEntries == 2

(***************************************************************************)
(* Name resolution tables (klavis_sandbox.py:11-30)                        *)
(***************************************************************************)
LOCAL_DEV_SERVER_NAMES ==
    {"filesystem", "git", "terminal", "python_execute",
     "pdf-tools", "excel", "word", "pptx", "arxiv_local"}

LOCAL_DEV_TASK_TO_REMOTE_NAME ==
    [python_execute |-> "code-executor",
     pptx |-> "powerpoint",
     arxiv_local |-> "arxiv"]

TASK_SERVER_TO_SANDBOX_NAME ==
    ("arxiv-latex" :> "arxiv_latex") @@
    [google_sheet |-> "google_sheets",
     wandb |-> "weights_and_biases",
     emails |-> "poste_email_toolathlon"]

\* dict.get(key, key): the table's value, the key itself when absent
GetOrSelf(table, key) == IF key \in DOMAIN table THEN table[key] ELSE key

(***************************************************************************)
(* Python values                                                           *)
(***************************************************************************)
\* a dict with no entries; also the value of a JSON object {}
EmptyDict == <<>>

\* a missing or empty sandbox_id / server_name, as dict.get reports it
NoId == 0
NoName == ""

\* dict.get("sandbox_id") and dict.get("server_name") of a response body
SandboxIdOf(d) == IF "sandbox_id" \in DOMAIN d THEN d.sandbox_id ELSE NoId
ServerNameOf(d) == IF "server_name" \in DOMAIN d THEN d.server_name ELSE NoName

\* dict.get("server_urls"), an absent map read as the empty one (both falsy)
ServerUrlsOf(d) == IF "server_urls" \in DOMAIN d THEN d.server_urls ELSE <<>>

\* return values: None, or a dict
None == [kind |-> "None"]
Dict(d) == [kind |-> "dict", value |-> d]
Running == [kind |-> "running"]

(***************************************************************************)
(* The remote service's responses                                          *)
(***************************************************************************)
\* the URL the sandbox rid serves under the response key
Url(rid, key) == <<rid, key>>

\* whether x occurs in the sequence s
InSeq(s, x) == \E i \in 1..Len(s) : s[i] = x

\* sequences over S without repetition, of length at most n
RECURSIVE DistinctSeqs(_, _)
DistinctSeqs(S, n) ==
    IF n = 0 THEN {<<>>}
    ELSE LET shorter == DistinctSeqs(S, n - 1)
         IN shorter \cup
            {Append(p[1], p[2]) :
                p \in {q \in shorter \X S :
                          Len(q[1]) = n - 1 /\ ~InSeq(q[1], q[2])}}

\* sequences over S, repetition allowed, of length at most n
RECURSIVE SeqsUpTo(_, _)
SeqsUpTo(S, n) ==
    IF n = 0 THEN {<<>>}
    ELSE LET shorter == SeqsUpTo(S, n - 1)
         IN shorter \cup
            {Append(p[1], p[2]) :
                p \in {q \in shorter \X S : Len(q[1]) = n - 1}}

\* a server_urls map of sandbox rid with the given keys, in the order the
\* JSON object lists them
UrlMap(rid, keys) ==
    [i \in 1..Len(keys) |-> [name |-> keys[i], url |-> Url(rid, keys[i])]]

\* a JSON object body: the fields of `fields` among sandbox_id and
\* server_name, and a server_urls map when urlopt is <<keys>> (none when <<>>)
Body(server_name, rid, fields, urlopt) ==
    LET base == [k \in fields |->
                    IF k = "sandbox_id" THEN rid ELSE server_name]
    IN IF urlopt = <<>> THEN base
       ELSE base @@ [server_urls |-> UrlMap(rid, urlopt[1])]

\* the outcomes of a creation request: no response (network error or
\* timeout), a non-2xx status, a 2xx whose body is not JSON, a 2xx with a
\* JSON object
FailureKinds == {"transport", "non2xx", "nonjson"}
Failures == {[kind |-> k, body |-> EmptyDict] : k \in FailureKinds}

Responses(server_name, rid, fieldsets, urlopts) ==
    Failures \cup
    {[kind |-> "json", body |-> Body(server_name, rid, f, u)] :
        f \in fieldsets, u \in urlopts}

\* the response created a sandbox on the remote side
Created(resp) == resp.kind \in {"nonjson", "json"}

(***************************************************************************)
(* Files, bytes and archives (local_dev_sandbox.py)                        *)
(***************************************************************************)
\* contents of a file
Data == {"x", "y"}

\* the relative paths a local directory may hold files under, as path
\* components, in the order rglob lists them
TreePaths == << <<"a.txt">>, <<"d", "b.txt">> >>

\* the files of a directory: relative path -> contents; no file at all
NoFiles == <<>>
Trees ==
    UNION {[S -> Data] : S \in SUBSET {TreePaths[i] : i \in 1..Len(TreePaths)}}

\* a directory on disk: whether it exists, and its files
NoDirectory == [exists |-> FALSE, files |-> NoFiles]
Directory(files) == [exists |-> TRUE, files |-> files]

\* bytes: none, a gzipped tar archive with the members listed, anything else
NoBytes == [kind |-> "empty"]
Garbage == [kind |-> "garbage"]
Gz(entries) == [kind |-> "gz", entries |-> entries]

\* a regular-file member of an archive
Entry(name, data) == [name |-> name, data |-> data]

\* lines 23-28: the relative paths of the files under the directory
CollectFiles(files) == SelectSeq(TreePaths, LAMBDA p : p \in DOMAIN files)

\* every member named by the last component of its path
ArcName_basename(rel_path) == <<rel_path[Len(rel_path)]>>

\* line 82: the member name of a collected file, arcname=rel_path
ArcName(rel_path) == rel_path

\* lines 80-85: one member per collected file, with the file's bytes
Archive(files) ==
    LET collected == CollectFiles(files)
    IN [i \in 1..Len(collected) |->
           Entry(ArcName(collected[i]), files[collected[i]])]

\* where a member name leads from the destination directory: the path
\* under it, or outside once ".." climbs above it
RECURSIVE Resolve(_, _)
Resolve(name, stack) ==
    IF name = <<>> THEN [inside |-> TRUE, path |-> stack]
    ELSE IF Head(name) = ".."
         THEN IF stack = <<>> THEN [inside |-> FALSE, path |-> <<>>]
              ELSE Resolve(Tail(name), SubSeq(stack, 1, Len(stack) - 1))
         ELSE Resolve(Tail(name), Append(stack, Head(name)))

\* a member name that starts at the root of the file system
IsAbsolute(name) == name # <<>> /\ Head(name) = "/"

\* extraction without a filter: every member is written where its name
\* leads
DataFilter_fullyTrusted(name) ==
    LET r == Resolve(name, <<>>)
    IN [reject |-> FALSE,
        inside |-> ~IsAbsolute(name) /\ r.inside,
        path |-> r.path]

\* line 139, filter="data": leading slashes are stripped, and a member whose
\* name leads outside the destination is refused with an exception
DataFilter(name) ==
    LET r == Resolve(IF IsAbsolute(name) THEN Tail(name) ELSE name, <<>>)
    IN [reject |-> ~r.inside, inside |-> r.inside, path |-> r.path]

\* a file written under a directory
WriteFile(files, path, data) ==
    [q \in DOMAIN files \cup {path} |-> IF q = path THEN data ELSE files[q]]

\* line 139, extractall: the members in order, until one is refused
RECURSIVE ExtractAll(_, _, _)
ExtractAll(entries, files, out) ==
    IF entries = <<>>
    THEN [files |-> files, outside |-> out, raised |-> FALSE]
    ELSE LET member == Head(entries)
             f == DataFilter(member.name)
         IN IF f.reject
            THEN [files |-> files, outside |-> out, raised |-> TRUE]
            ELSE IF f.inside
                 THEN ExtractAll(Tail(entries),
                                 WriteFile(files, f.path, member.data), out)
                 ELSE ExtractAll(Tail(entries), files, out \cup {member.name})

\* an exception left the function
Raised == [kind |-> "raised"]

\* one HTTP request of a transfer function and how it ended
SyncRequest(method, path, status) ==
    [method |-> method, path |-> path, status |-> status]

(***************************************************************************)
(* State                                                                   *)
(***************************************************************************)
VARIABLES
    acquired_sandboxes, \* KlavisSandbox.acquired_sandboxes: the response dicts
    next_id,            \* remote service: the identifier of its next sandbox
    delete_count,       \* remote service: DELETE requests seen per identifier
    pc,                 \* "idle", or the position inside acquire_for_servers
    op,                 \* the operation that runs or ran last
    server_names,       \* acquire_for_servers: its server_names argument
    idx,                \* acquire_for_servers: position in other_servers
    overrides,          \* acquire_for_servers: its local overrides dict
    http_log,           \* HTTP requests the running or last operation issued
    ret                 \* what the last operation returned

\* the workspace transfer (local_dev_sandbox.py) and the remote sandbox it
\* talks to
VARIABLES
    sync_op,            \* the transfer function that runs or ran last
    sync_pc,            \* "idle", or the request the running function makes next
    sync_log,           \* HTTP requests the running or last function issued
    sync_ret,           \* what the last function returned, or that it raised
    directory,          \* upload_workspace: the files under its directory
    content,            \* upload_workspace(_tarball): the bytes it uploads
    pod,                \* remote sandbox: the archive its /dump serves
    uploaded,           \* download_workspace: <<tree>> when the call before it
                        \* was an upload_workspace(tree) that returned
    target,             \* download_workspace: the files under its directory
    outside             \* download_workspace: names written outside it

session_vars == <<acquired_sandboxes, next_id, delete_count, pc, op,
                  server_names, idx, overrides, http_log, ret>>

sync_vars == <<sync_op, sync_pc, sync_log, sync_ret, directory, content,
               pod, uploaded, target, outside>>

vars == <<acquired_sandboxes, next_id, delete_count, pc, op,
          server_names, idx, overrides, http_log, ret,
          sync_op, sync_pc, sync_log, sync_ret, directory, content,
          pod, uploaded, target, outside>>

\* a new KlavisSandbox (lines 34-38) and a remote service without sandboxes
SessionInit ==
    /\ acquired_sandboxes = <<>>
    /\ next_id = 1
    /\ delete_count = [s \in {} |-> 0]
    /\ pc = "idle"
    /\ op = "__init__"
    /\ server_names = <<>>
    /\ idx = 1
    /\ overrides = EmptyDict
    /\ http_log = <<>>
    /\ ret = None

\* no transfer function has run
SyncInit ==
    /\ sync_op = "none"
    /\ sync_pc = "idle"
    /\ sync_log = <<>>
    /\ sync_ret = None
    /\ directory = NoFiles
    /\ content = NoBytes
    /\ uploaded = <<>>
    /\ target = NoDirectory
    /\ outside = {}

Init ==
    /\ SessionInit
    /\ SyncInit
    /\ pod = Gz(<<>>)

\* the locals of acquire_for_servers are gone once another operation runs
NoLocals ==
    /\ server_names' = <<>>
    /\ idx' = 1
    /\ overrides' = EmptyDict

\* one HTTP request and how it ended
Request(method, server_name, sandbox_id, status) ==
    [method |-> method, server_name |-> server_name,
     sandbox_id |-> sandbox_id, status |-> status]

(***************************************************************************)
(* acquire (klavis_sandbox.py:40-65)                                       *)
(***************************************************************************)
\* what acquire returns for a response: the parsed body, None when the
\* request, raise_for_status or resp.json() raised
AcquireResult(resp) ==
    IF resp.kind = "json" THEN Dict(resp.body) ELSE None

\* acquire that records a sandbox only when its body lists server URLs
AcquireBody_populated(server_name, resp, log) ==
    /\ Created(resp) => next_id <= MaxSandboxes
    /\ http_log' = Append(log, Request("POST", server_name, NoId, resp.kind))
    /\ next_id' = IF Created(resp) THEN next_id + 1 ELSE next_id
    /\ IF resp.kind = "json" /\ ServerUrlsOf(resp.body) # <<>>
       THEN acquired_sandboxes' = Append(acquired_sandboxes, resp.body)
       ELSE UNCHANGED acquired_sandboxes
    /\ UNCHANGED delete_count

\* acquire that puts the parsed body in front of acquired_sandboxes
AcquireBody_prepends(server_name, resp, log) ==
    /\ Created(resp) => next_id <= MaxSandboxes
    /\ http_log' = Append(log, Request("POST", server_name, NoId, resp.kind))
    /\ next_id' = IF Created(resp) THEN next_id + 1 ELSE next_id
    /\ IF resp.kind = "json"
       THEN acquired_sandboxes' = <<resp.body>> \o acquired_sandboxes
       ELSE UNCHANGED acquired_sandboxes
    /\ UNCHANGED delete_count

\* the body of acquire: POST /sandbox/{server_name}, append the parsed body
\* to acquired_sandboxes; log is the requests the operation issued before
AcquireBody(server_name, resp, log) ==
    /\ Created(resp) => next_id <= MaxSandboxes
    /\ http_log' = Append(log, Request("POST", server_name, NoId, resp.kind))
    /\ next_id' = IF Created(resp) THEN next_id + 1 ELSE next_id
    /\ IF resp.kind = "json"
       THEN acquired_sandboxes' = Append(acquired_sandboxes, resp.body)
       ELSE UNCHANGED acquired_sandboxes
    /\ UNCHANGED delete_count

\* acquire called by the session's user
Acquire(server_name, resp) ==
    /\ pc = "idle"
    /\ AcquireBody(server_name, resp, <<>>)
    /\ op' = "acquire"
    /\ ret' = AcquireResult(resp)
    /\ NoLocals
    /\ UNCHANGED pc

(***************************************************************************)
(* acquire_for_servers (klavis_sandbox.py:67-114)                          *)
(***************************************************************************)
local_dev_requested(names) ==
    SelectSeq(names, LAMBDA n : n \in LOCAL_DEV_SERVER_NAMES)

other_servers(names) ==
    SelectSeq(names, LAMBDA n : n \notin LOCAL_DEV_SERVER_NAMES)

\* `result and result.get("server_urls")`: a dict with entries whose
\* server_urls map has entries
HasServerUrls(result) ==
    /\ result.kind = "dict"
    /\ DOMAIN result.value # {}
    /\ ServerUrlsOf(result.value) # <<>>

\* `remote_name in api_urls` and `api_urls[remote_name]`
HasKey(api_urls, key) == \E i \in 1..Len(api_urls) : api_urls[i].name = key
UrlOf(api_urls, key) ==
    api_urls[CHOOSE i \in 1..Len(api_urls) : api_urls[i].name = key].url

\* overrides[key] = url
SetItem(dict, key, url) ==
    [k \in DOMAIN dict \cup {key} |-> IF k = key THEN url ELSE dict[k]]

RECURSIVE MapLocalDev(_, _, _)
\* the loop over the requested local_dev names left at the first of them
\* whose remote name the response does not list
MapLocalDev_aborts(requested, api_urls, dict) ==
    LET RemoteName(i) == GetOrSelf(LOCAL_DEV_TASK_TO_REMOTE_NAME, requested[i])
        missing == {i \in 1..Len(requested) : ~HasKey(api_urls, RemoteName(i))}
        done == {i \in 1..Len(requested) : \A j \in missing : i < j}
    IN [k \in DOMAIN dict \cup {requested[i] : i \in done} |->
           IF \E i \in done : requested[i] = k
           THEN UrlOf(api_urls,
                      RemoteName(CHOOSE i \in done : requested[i] = k))
           ELSE dict[k]]

\* lines 97-103: every requested local_dev name whose remote name the
\* response lists gets the URL under its task name
MapLocalDev(requested, api_urls, dict) ==
    IF requested = <<>> THEN dict
    ELSE LET task_name == Head(requested)
             remote_name == GetOrSelf(LOCAL_DEV_TASK_TO_REMOTE_NAME, task_name)
         IN MapLocalDev(Tail(requested), api_urls,
                IF HasKey(api_urls, remote_name)
                THEN SetItem(dict, task_name, UrlOf(api_urls, remote_name))
                ELSE dict)

\* every entry stored under the response's own key
OverrideKey_raw(name, sandbox_name, sname) == sname

\* line 111: the key an entry of the response is stored under
OverrideKey(name, sandbox_name, sname) ==
    IF sname = sandbox_name THEN name ELSE sname

RECURSIVE MapOther(_, _, _, _)
\* the first entry of the response alone
MapOther_firstOnly(name, sandbox_name, urls, dict) ==
    IF urls = <<>> THEN dict
    ELSE SetItem(dict, OverrideKey(name, sandbox_name, Head(urls).name),
                 Head(urls).url)

\* lines 110-113: every entry of the response, in order
MapOther(name, sandbox_name, urls, dict) ==
    IF urls = <<>> THEN dict
    ELSE MapOther(name, sandbox_name, Tail(urls),
            SetItem(dict, OverrideKey(name, sandbox_name, Head(urls).name),
                    Head(urls).url))

\* where acquire_for_servers continues once the local_dev part is over and
\* i - 1 of the other servers are done
PcAfter(names, i) ==
    IF i <= Len(other_servers(names)) THEN "others" ELSE "idle"

\* lines 83-92: the call starts; without names to acquire it returns at once
StartAcquireForServers(names) ==
    /\ pc = "idle"
    /\ op' = "acquire_for_servers"
    /\ server_names' = names
    /\ overrides' = EmptyDict
    /\ idx' = 1
    /\ http_log' = <<>>
    /\ pc' = IF local_dev_requested(names) # <<>> THEN "local_dev"
             ELSE PcAfter(names, 1)
    /\ ret' = IF pc' = "idle" THEN Dict(EmptyDict) ELSE Running
    /\ UNCHANGED <<acquired_sandboxes, next_id, delete_count>>

\* a local_dev sandbox for each requested local_dev name
AcquireLocalDev_perName(resp) ==
    /\ pc = "local_dev"
    /\ AcquireBody("local_dev", resp, http_log)
    /\ LET result == AcquireResult(resp)
       IN overrides' =
            IF HasServerUrls(result)
            THEN MapLocalDev(local_dev_requested(server_names),
                             ServerUrlsOf(result.value), overrides)
            ELSE overrides
    /\ pc' = IF Len(http_log') < Len(local_dev_requested(server_names))
             THEN "local_dev" ELSE PcAfter(server_names, 1)
    /\ ret' = IF pc' = "idle" THEN Dict(overrides') ELSE Running
    /\ UNCHANGED <<op, server_names, idx>>

\* lines 92-103: the one local_dev sandbox for all local_dev names
AcquireLocalDev(resp) ==
    /\ pc = "local_dev"
    /\ AcquireBody("local_dev", resp, http_log)
    /\ LET result == AcquireResult(resp)
       IN overrides' =
            IF HasServerUrls(result)
            THEN MapLocalDev(local_dev_requested(server_names),
                             ServerUrlsOf(result.value), overrides)
            ELSE overrides
    /\ pc' = PcAfter(server_names, 1)
    /\ ret' = IF pc' = "idle" THEN Dict(overrides') ELSE Running
    /\ UNCHANGED <<op, server_names, idx>>

\* the other servers requested under their task names, the table ignored
AcquireOther_unmapped(resp) ==
    /\ pc = "others"
    /\ LET name == other_servers(server_names)[idx]
           sandbox_name == name
           result == AcquireResult(resp)
       IN /\ AcquireBody(sandbox_name, resp, http_log)
          /\ overrides' =
                IF HasServerUrls(result)
                THEN MapOther(name, sandbox_name,
                              ServerUrlsOf(result.value), overrides)
                ELSE overrides
    /\ idx' = idx + 1
    /\ pc' = PcAfter(server_names, idx + 1)
    /\ ret' = IF pc' = "idle" THEN Dict(overrides') ELSE Running
    /\ UNCHANGED <<op, server_names>>

\* lines 106-114: one sandbox for the next of the other servers
AcquireOther(resp) ==
    /\ pc = "others"
    /\ LET name == other_servers(server_names)[idx]
           sandbox_name == GetOrSelf(TASK_SERVER_TO_SANDBOX_NAME, name)
           result == AcquireResult(resp)
       IN /\ AcquireBody(sandbox_name, resp, http_log)
          /\ overrides' =
                IF HasServerUrls(result)
                THEN MapOther(name, sandbox_name,
                              ServerUrlsOf(result.value), overrides)
                ELSE overrides
    /\ idx' = idx + 1
    /\ pc' = PcAfter(server_names, idx + 1)
    /\ ret' = IF pc' = "idle" THEN Dict(overrides') ELSE Running
    /\ UNCHANGED <<op, server_names>>

(***************************************************************************)
(* get_sandbox_details (klavis_sandbox.py:116-126)                         *)
(***************************************************************************)
\* get_sandbox_details that records the details it got, as acquire does
GetSandboxDetails_tracks(server_name, sandbox_id, status) ==
    /\ pc = "idle"
    /\ op' = "get_sandbox_details"
    /\ http_log' = <<Request("GET", server_name, sandbox_id, status)>>
    /\ ret' = IF status = "json"
              THEN Dict([sandbox_id |-> sandbox_id, server_name |-> server_name])
              ELSE None
    /\ IF status = "json"
       THEN acquired_sandboxes' = Append(acquired_sandboxes, ret'.value)
       ELSE UNCHANGED acquired_sandboxes
    /\ NoLocals
    /\ UNCHANGED <<next_id, delete_count, pc>>

\* GET /sandbox/{server_name}/{sandbox_id}: the parsed body, None on any
\* exception; the session is not touched
GetSandboxDetails(server_name, sandbox_id, status) ==
    /\ pc = "idle"
    /\ op' = "get_sandbox_details"
    /\ http_log' = <<Request("GET", server_name, sandbox_id, status)>>
    /\ ret' = IF status = "json"
              THEN Dict([sandbox_id |-> sandbox_id, server_name |-> server_name])
              ELSE None
    /\ NoLocals
    /\ UNCHANGED <<acquired_sandboxes, next_id, delete_count, pc>>

(***************************************************************************)
(* release_all (klavis_sandbox.py:128-145)                                 *)
(***************************************************************************)
\* how a DELETE can end: 2xx, a non-2xx status, no response (network error
\* or timeout, both httpx.TransportError)
DeleteOutcomes == {"2xx", "non2xx", "transport"}

\* lines 131-144: the DELETE requests of one pass over sandboxes from
\* position i on; a dict without sandbox_id or server_name is skipped, and
\* the except clause lets the loop go on whatever outcomes[i] is
RECURSIVE ReleaseRequests(_, _, _)
ReleaseRequests(sandboxes, outcomes, i) ==
    IF i > Len(sandboxes) THEN <<>>
    ELSE LET sandbox_id == SandboxIdOf(sandboxes[i])
             server_name == ServerNameOf(sandboxes[i])
         IN IF sandbox_id = NoId \/ server_name = NoName
            THEN ReleaseRequests(sandboxes, outcomes, i + 1)
            ELSE <<Request("DELETE", server_name, sandbox_id, outcomes[i])>>
                 \o ReleaseRequests(sandboxes, outcomes, i + 1)

\* DELETE requests the remote service has seen for the identifier
DeleteCount(s) == IF s \in DOMAIN delete_count THEN delete_count[s] ELSE 0

\* the remote service's count after the requests of log
Counted(log) ==
    LET ids == {log[i].sandbox_id : i \in 1..Len(log)}
    IN [s \in DOMAIN delete_count \cup ids |->
           DeleteCount(s)
           + Cardinality({i \in 1..Len(log) : log[i].sandbox_id = s})]

\* release_all without the final clear()
ReleaseAll_keeps(outcomes) ==
    /\ pc = "idle"
    /\ op' = "release_all"
    /\ http_log' = ReleaseRequests(acquired_sandboxes, outcomes, 1)
    /\ delete_count' = Counted(http_log')
    /\ ret' = None
    /\ NoLocals
    /\ UNCHANGED <<acquired_sandboxes, next_id, pc>>

\* release_all that clears only when no DELETE failed
ReleaseAll_clearsOnSuccess(outcomes) ==
    /\ pc = "idle"
    /\ op' = "release_all"
    /\ http_log' = ReleaseRequests(acquired_sandboxes, outcomes, 1)
    /\ delete_count' = Counted(http_log')
    /\ IF \A i \in 1..Len(http_log') : http_log'[i].status = "2xx"
       THEN acquired_sandboxes' = <<>>
       ELSE UNCHANGED acquired_sandboxes
    /\ ret' = None
    /\ NoLocals
    /\ UNCHANGED <<next_id, pc>>

\* release_all without the try/except: the first failed DELETE propagates,
\* the loop ends there and clear() is not reached
ReleaseAll_raises(outcomes) ==
    LET all == ReleaseRequests(acquired_sandboxes, outcomes, 1)
        failed == {i \in 1..Len(all) : all[i].status # "2xx"}
        last == IF failed = {} THEN Len(all)
                ELSE CHOOSE i \in failed : \A j \in failed : i <= j
    IN /\ pc = "idle"
       /\ op' = "release_all"
       /\ http_log' = SubSeq(all, 1, last)
       /\ delete_count' = Counted(http_log')
       /\ IF failed = {}
          THEN acquired_sandboxes' = <<>>
          ELSE UNCHANGED acquired_sandboxes
       /\ ret' = None
       /\ NoLocals
       /\ UNCHANGED <<next_id, pc>>

\* release_all: one DELETE per tracked dict, then clear()
ReleaseAll(outcomes) ==
    /\ pc = "idle"
    /\ op' = "release_all"
    /\ http_log' = ReleaseRequests(acquired_sandboxes, outcomes, 1)
    /\ delete_count' = Counted(http_log')
    /\ acquired_sandboxes' = <<>>
    /\ ret' = None
    /\ NoLocals
    /\ UNCHANGED <<next_id, pc>>

(***************************************************************************)
(* upload_workspace, upload_workspace_tarball                              *)
(* (local_dev_sandbox.py:31-107)                                           *)
(***************************************************************************)
\* how a request for a signed URL can end: no response, a non-2xx status, a
\* 2xx whose body is not JSON, a JSON body without the URL, a JSON body
\* with it
UrlOutcomes == {"transport", "non2xx", "nonjson", "nokey", "ok"}

\* how the PUT and the GET of the archive can end
TransferOutcomes == {"transport", "non2xx", "ok"}

\* how POST /initialize can end
InitializeOutcomes == {"transport", "non2xx", "nonjson", "ok"}

\* the result of an upload that had nothing to upload
Idle(message) == Dict([status |-> "idle", message |-> message])

\* the locals of download_workspace are gone once an upload runs
NoDownload ==
    /\ uploaded' = <<>>
    /\ target' = NoDirectory
    /\ outside' = {}

\* upload_workspace that archives whatever it collected, nothing included
UploadWorkspace_noCheck(files) ==
    /\ sync_pc = "idle"
    /\ sync_op' = "upload_workspace"
    /\ directory' = files
    /\ sync_log' = <<>>
    /\ content' = Gz(Archive(files))
    /\ sync_pc' = "upload_url"
    /\ sync_ret' = Running
    /\ NoDownload
    /\ UNCHANGED pod

\* lines 74-85: collect the files; without files return at once, else build
\* the archive and go on to the three requests
UploadWorkspace(files) ==
    /\ sync_pc = "idle"
    /\ sync_op' = "upload_workspace"
    /\ directory' = files
    /\ sync_log' = <<>>
    /\ IF CollectFiles(files) = <<>>
       THEN /\ content' = NoBytes
            /\ sync_pc' = "idle"
            /\ sync_ret' = Idle("No files to upload")
       ELSE /\ content' = Gz(Archive(files))
            /\ sync_pc' = "upload_url"
            /\ sync_ret' = Running
    /\ NoDownload
    /\ UNCHANGED pod

\* lines 99-103: read the tarball; without bytes return at once
UploadWorkspaceTarball(bytes) ==
    /\ sync_pc = "idle"
    /\ sync_op' = "upload_workspace_tarball"
    /\ directory' = NoFiles
    /\ sync_log' = <<>>
    /\ content' = bytes
    /\ IF bytes = NoBytes
       THEN /\ sync_pc' = "idle"
            /\ sync_ret' = Idle("Empty tarball")
       ELSE /\ sync_pc' = "upload_url"
            /\ sync_ret' = Running
    /\ NoDownload
    /\ UNCHANGED pod

\* lines 31-40: POST /upload-url; raise_for_status, resp.json() and the
\* lookup of "upload_url" each raise out of the upload
GetSignedUploadUrl(status) ==
    /\ sync_pc = "upload_url"
    /\ sync_log' = Append(sync_log, SyncRequest("POST", "upload-url", status))
    /\ IF status = "ok"
       THEN sync_pc' = "put" /\ UNCHANGED sync_ret
       ELSE sync_pc' = "idle" /\ sync_ret' = Raised
    /\ UNCHANGED <<sync_op, directory, content, pod, uploaded, target, outside>>

\* the PUT without raise_for_status: the upload goes on whatever the status
UploadToGcs_unchecked(status) ==
    /\ sync_pc = "put"
    /\ sync_log' = Append(sync_log, SyncRequest("PUT", "upload_url", status))
    /\ IF status # "transport"
       THEN sync_pc' = "initialize" /\ UNCHANGED sync_ret
       ELSE sync_pc' = "idle" /\ sync_ret' = Raised
    /\ UNCHANGED <<sync_op, directory, content, pod, uploaded, target, outside>>

\* lines 43-51: PUT the bytes to the signed URL; raise_for_status raises out
\* of the upload
UploadToGcs(status) ==
    /\ sync_pc = "put"
    /\ sync_log' = Append(sync_log, SyncRequest("PUT", "upload_url", status))
    /\ IF status = "ok"
       THEN sync_pc' = "initialize" /\ UNCHANGED sync_ret
       ELSE sync_pc' = "idle" /\ sync_ret' = Raised
    /\ UNCHANGED <<sync_op, directory, content, pod, uploaded, target, outside>>

\* lines 54-63: POST /initialize; on a 2xx the sandbox holds the bytes put
\* before; the upload returns the parsed body
TriggerInitialize(status) ==
    /\ sync_pc = "initialize"
    /\ sync_log' = Append(sync_log, SyncRequest("POST", "initialize", status))
    /\ pod' = IF status \in {"nonjson", "ok"} THEN content ELSE pod
    /\ sync_ret' = IF status = "ok" THEN Dict([status |-> "ok"]) ELSE Raised
    /\ sync_pc' = "idle"
    /\ UNCHANGED <<sync_op, directory, content, uploaded, target, outside>>

(***************************************************************************)
(* download_workspace (local_dev_sandbox.py:110-139)                       *)
(***************************************************************************)
\* lines 116-118: the call starts and makes its directory, which holds no
\* file
DownloadWorkspace ==
    /\ sync_pc = "idle"
    /\ sync_op' = "download_workspace"
    /\ uploaded' = IF sync_op = "upload_workspace" /\ sync_ret.kind = "dict"
                   THEN <<directory>> ELSE <<>>
    /\ directory' = NoFiles
    /\ content' = NoBytes
    /\ target' = Directory(NoFiles)
    /\ outside' = {}
    /\ sync_log' = <<>>
    /\ sync_pc' = "dump"
    /\ sync_ret' = Running
    /\ UNCHANGED pod

\* GET /dump without raise_for_status: a non-2xx body with a download_url
\* lets the download go on
GetDump_unchecked(status) ==
    /\ sync_pc = "dump"
    /\ sync_log' = Append(sync_log, SyncRequest("GET", "dump", status))
    /\ IF status \in {"ok", "non2xx"}
       THEN sync_pc' = "archive" /\ UNCHANGED sync_ret
       ELSE sync_pc' = "idle" /\ sync_ret' = Raised
    /\ UNCHANGED <<sync_op, directory, content, pod, uploaded, target, outside>>

\* lines 121-127: GET /dump; raise_for_status, resp.json() and the lookup
\* of "download_url" each raise out of the download
GetDump(status) ==
    /\ sync_pc = "dump"
    /\ sync_log' = Append(sync_log, SyncRequest("GET", "dump", status))
    /\ IF status = "ok"
       THEN sync_pc' = "archive" /\ UNCHANGED sync_ret
       ELSE sync_pc' = "idle" /\ sync_ret' = Raised
    /\ UNCHANGED <<sync_op, directory, content, pod, uploaded, target, outside>>

\* lines 130-139: GET the signed URL, read the sandbox's archive and
\* extract it into the directory; bytes that are no gzipped tar archive
\* raise before anything is extracted
GetArchive(status) ==
    /\ sync_pc = "archive"
    /\ sync_log' = Append(sync_log, SyncRequest("GET", "download_url", status))
    /\ IF status = "ok" /\ pod.kind = "gz"
       THEN LET r == ExtractAll(pod.entries, target.files, {})
            IN /\ target' = Directory(r.files)
               /\ outside' = r.outside
               /\ sync_ret' = IF r.raised THEN Raised ELSE None
       ELSE /\ sync_ret' = Raised
            /\ UNCHANGED <<target, outside>>
    /\ sync_pc' = "idle"
    /\ UNCHANGED <<sync_op, directory, content, pod, uploaded>>

(***************************************************************************)
(* The environment: callers' arguments and the remote service's responses  *)
(***************************************************************************)
\* names the callers request: local_dev names with and without a remote
\* name of their own, other names with and without a sandbox name of their
\* own, and the resource type local_dev asked for by name
RequestNames ==
    {"filesystem", "terminal", "python_execute", "emails", "notion", "local_dev"}

\* resource types the callers acquire directly
DirectNames == {"local_dev"}

\* keys a sandbox of the resource type may list in server_urls: those of the
\* local_dev servers; for another type its own name and one more name
ResponseKeys(sandbox_name) ==
    IF sandbox_name = "local_dev"
    THEN {"filesystem", "terminal", "code-executor"}
    ELSE {sandbox_name, IF sandbox_name = "notion" THEN "emails" ELSE "notion"}

\* resource types the requests of the model go to
ResourceTypes ==
    {"local_dev"} \cup {GetOrSelf(TASK_SERVER_TO_SANDBOX_NAME, n) : n \in RequestNames}

\* server_urls of a response, per resource type: absent, or any map over
\* the keys
AllUrlOpts ==
    [t \in ResourceTypes |->
        {<<>>} \cup {<<keys>> : keys \in DistinctSeqs(ResponseKeys(t), MaxUrls)}]

UrlOpts(sandbox_name) == AllUrlOpts[sandbox_name]

\* server_urls of a well-formed response: absent, or the one key the
\* resource type is known for
PlainUrlOpts(sandbox_name) ==
    {<<>>, <<<<IF sandbox_name = "local_dev" THEN "filesystem" ELSE sandbox_name>>>>}

\* the fields a body carries besides server_urls
FieldSets == SUBSET {"sandbox_id", "server_name"}

\* the resource type the running acquire_for_servers requests next
NextSandboxName ==
    GetOrSelf(TASK_SERVER_TO_SANDBOX_NAME, other_servers(server_names)[idx])

\* the session's life: every operation in any order, bodies with and
\* without each field, plain URL maps
Next ==
    \/ /\ \E server_name \in DirectNames :
            \E resp \in Responses(server_name, next_id, FieldSets,
                                  PlainUrlOpts(server_name)) :
               Acquire(server_name, resp)
       /\ UNCHANGED sync_vars
    \/ /\ \E names \in DistinctSeqs({"filesystem", "emails"}, 2) :
            StartAcquireForServers(names)
       /\ UNCHANGED sync_vars
    \/ /\ \E resp \in Responses("local_dev", next_id, FieldSets,
                                PlainUrlOpts("local_dev")) :
            AcquireLocalDev(resp)
       /\ UNCHANGED sync_vars
    \/ /\ pc = "others"
       /\ \E resp \in Responses(NextSandboxName, next_id, FieldSets,
                                PlainUrlOpts(NextSandboxName)) :
            AcquireOther(resp)
       /\ UNCHANGED sync_vars
    \/ /\ \E server_name \in DirectNames, sandbox_id \in 1..(next_id - 1),
             status \in {"non2xx", "json"} :
            GetSandboxDetails(server_name, sandbox_id, status)
       /\ UNCHANGED sync_vars
    \/ /\ \E outcomes \in [1..Len(acquired_sandboxes) -> DeleteOutcomes] :
            ReleaseAll(outcomes)
       /\ UNCHANGED sync_vars

Spec == Init /\ [][Next]_vars

\* the responses to a creation request in NextMany, per resource type and
\* identifier of the sandbox created: a complete body with any URL map, or
\* a non-2xx status
AllManyResponses ==
    [t \in ResourceTypes, rid \in 1..(MaxSandboxes + 1) |->
        {r \in Responses(t, rid, {{"sandbox_id", "server_name"}}, UrlOpts(t)) :
            r.kind \in {"non2xx", "json"}}]

ManyResponses(sandbox_name) == AllManyResponses[sandbox_name, next_id]

\* the lists of distinct names acquire_for_servers is called with
ManyRequests == DistinctSeqs(RequestNames, MaxNames)

\* acquire_for_servers in full: one call on a fresh session, for any list
\* of distinct names
NextMany ==
    \/ /\ op = "__init__"
       /\ \E names \in ManyRequests :
            StartAcquireForServers(names)
       /\ UNCHANGED sync_vars
    \/ /\ \E resp \in ManyResponses("local_dev") :
            AcquireLocalDev(resp)
       /\ UNCHANGED sync_vars
    \/ /\ pc = "others"
       /\ \E resp \in ManyResponses(NextSandboxName) :
            AcquireOther(resp)
       /\ UNCHANGED sync_vars

SpecMany == Init /\ [][NextMany]_vars

\* member names an archive held by the remote sandbox may carry: those of
\* the local files, one that climbs out of the destination and an absolute
\* one
MemberNames ==
    {TreePaths[i] : i \in 1..Len(TreePaths)}
    \cup {<<"..", "..", "etc", "passwd">>, <<"/", "etc", "passwd">>}

Entries == {Entry(n, d) : n \in MemberNames, d \in Data}

\* what the remote sandbox may hold before any upload: any archive, or
\* bytes that are no archive
Held == {Garbage} \cup {Gz(a) : a \in SeqsUpTo(Entries, MaxEntries)}

\* the bytes of the tarballs callers upload: none, no archive, an archive
\* of at most one member
Tarballs == {NoBytes, Garbage} \cup {Gz(a) : a \in SeqsUpTo(Entries, 1)}

\* the workspace transfer against a sandbox that holds anything
InitSync ==
    /\ SessionInit
    /\ SyncInit
    /\ pod \in Held

\* uploads and downloads in any order, every request with any outcome
NextSync ==
    \/ /\ \E files \in Trees : UploadWorkspace(files)
       /\ UNCHANGED session_vars
    \/ /\ \E bytes \in Tarballs : UploadWorkspaceTarball(bytes)
       /\ UNCHANGED session_vars
    \/ /\ \E status \in UrlOutcomes : GetSignedUploadUrl(status)
       /\ UNCHANGED session_vars
    \/ /\ \E status \in TransferOutcomes : UploadToGcs(status)
       /\ UNCHANGED session_vars
    \/ /\ \E status \in InitializeOutcomes : TriggerInitialize(status)
       /\ UNCHANGED session_vars
    \/ /\ DownloadWorkspace
       /\ UNCHANGED session_vars
    \/ /\ \E status \in UrlOutcomes : GetDump(status)
       /\ UNCHANGED session_vars
    \/ /\ \E status \in TransferOutcomes : GetArchive(status)
       /\ UNCHANGED session_vars

SpecSync == InitSync /\ [][NextSync]_vars

(***************************************************************************)
(* Properties of the session's life (Spec)                                 *)
(***************************************************************************)
\* identifiers of the sandboxes the remote service has created
CreatedIds == 1..(next_id - 1)

\* the requests of the log that are DELETEs
DeletesIn(log) == {i \in 1..Len(log) : log[i].method = "DELETE"}

\* identifiers the session holds: those its tracked dicts carry
TrackedIds(sandboxes) ==
    {SandboxIdOf(sandboxes[i]) : i \in 1..Len(sandboxes)} \ {NoId}

\* C1: a sandbox created with a 2xx response whose body is a JSON object is
\* put in acquired_sandboxes, an identifier in acquired_sandboxes stays there
\* until a release_all, and that release_all issues a DELETE for it, whatever
\* fields its dict has
C1_NeverLosesTrack ==
    [][/\ (next_id' > next_id /\ http_log'[Len(http_log')].status = "json") =>
             Len(acquired_sandboxes') = Len(acquired_sandboxes) + 1
       /\ op' # "release_all" =>
             TrackedIds(acquired_sandboxes) \subseteq TrackedIds(acquired_sandboxes')
       /\ op' = "release_all" =>
             \A s \in TrackedIds(acquired_sandboxes) :
                \E i \in DeletesIn(http_log') : http_log'[i].sandbox_id = s]_vars

\* C2: the remote service never sees two DELETE requests for the same
\* sandbox identifier
C2_NoDoubleDelete ==
    \A s \in DOMAIN delete_count : delete_count[s] <= 1

\* a release_all with a failed DELETE, after an earlier release_all that
\* issued a DELETE for another sandbox
C2_Witness ==
    /\ op = "release_all"
    /\ \E i \in DeletesIn(http_log) : http_log[i].status # "2xx"
    /\ \E s \in DOMAIN delete_count :
          /\ delete_count[s] = 1
          /\ \A i \in DeletesIn(http_log) : http_log[i].sandbox_id # s

\* C3: release_all leaves acquired_sandboxes empty, and a release_all that
\* directly follows a release_all issues no request and leaves it empty again
C3_ReleaseAllIdempotent ==
    [][/\ op' = "release_all" => acquired_sandboxes' = <<>>
       /\ (op = "release_all" /\ op' = "release_all")
             => (http_log' = <<>> /\ acquired_sandboxes' = <<>>)]_vars

\* the state after the second of two release_all calls in a row, the first
\* of which released every sandbox created so far with a failed DELETE
C3_Witness ==
    /\ op = "release_all"
    /\ http_log = <<>>
    /\ acquired_sandboxes = <<>>
    /\ CreatedIds # {}
    /\ \A s \in CreatedIds : DeleteCount(s) = 1

\* a tracked dict release_all issues a DELETE for
Releasable(d) == SandboxIdOf(d) # NoId /\ ServerNameOf(d) # NoName

\* C8: release_all goes through the tracked dicts once, in order: its
\* requests are exactly one DELETE per dict that names its sandbox, whatever
\* the outcome of the DELETEs before it, none repeated; it returns normally
\* and leaves acquired_sandboxes empty
C8_ReleaseAllSwallowsFailures ==
    [][op' = "release_all" =>
         LET expected == SelectSeq(acquired_sandboxes, Releasable)
         IN /\ Len(http_log') = Len(expected)
            /\ \A i \in 1..Len(expected) :
                  /\ http_log'[i].method = "DELETE"
                  /\ http_log'[i].sandbox_id = SandboxIdOf(expected[i])
                  /\ http_log'[i].server_name = ServerNameOf(expected[i])
            /\ acquired_sandboxes' = <<>>
            /\ ret' = None]_vars

\* a release_all of two sandboxes all of whose DELETEs failed, the first
\* with a non-2xx status and the second without a response
C8_Witness ==
    /\ op = "release_all"
    /\ Len(http_log) = 2
    /\ http_log[1].status = "non2xx"
    /\ http_log[2].status = "transport"
    /\ acquired_sandboxes = <<>>

\* C10: get_sandbox_details leaves acquired_sandboxes as it is and issues
\* nothing but its GET: no creation, no deletion
C10_GetDetailsFrame ==
    [][op' = "get_sandbox_details" =>
         /\ acquired_sandboxes' = acquired_sandboxes
         /\ Len(http_log') = 1
         /\ http_log'[1].method = "GET"
         /\ next_id' = next_id
         /\ delete_count' = delete_count]_vars

\* a successful get_sandbox_details on a session that tracks two sandboxes
C10_Witness ==
    /\ op = "get_sandbox_details"
    /\ ret.kind = "dict"
    /\ Len(acquired_sandboxes) = 2

\* C17: after a release_all that issued a DELETE, the next release_all
\* issues one DELETE per sandbox tracked since, for that sandbox, and none
\* for a sandbox that got a DELETE before
C17_ReentryReleasesNew ==
    [][(op' = "release_all" /\ DOMAIN delete_count # {}) =>
         /\ Len(http_log') = Len(acquired_sandboxes)
         /\ \A i \in 1..Len(http_log') :
               /\ http_log'[i].method = "DELETE"
               /\ http_log'[i].sandbox_id = SandboxIdOf(acquired_sandboxes[i])
               /\ DeleteCount(http_log'[i].sandbox_id) = 0]_vars

\* C18: acquire returns a dict only for a 2xx response whose JSON body has
\* a sandbox_id, and None for a request without response, a non-2xx status
\* and a body that is not JSON
C18_SuccessNeedsIdentifier ==
    op = "acquire" =>
        /\ ret.kind \in {"None", "dict"}
        /\ ret.kind = "dict" =>
              /\ http_log[1].status = "json"
              /\ SandboxIdOf(ret.value) # NoId
        /\ http_log[1].status \in FailureKinds => ret = None

\* the step issues a creation request: acquire, or acquire_for_servers
\* going on
IssuesCreation ==
    \/ op' = "acquire"
    \/ /\ op = "acquire_for_servers" /\ op' = "acquire_for_servers"
       /\ Len(http_log') = Len(http_log) + 1

\* C19: acquired_sandboxes changes in two ways only: a creation request
\* answered with a descriptor puts that one descriptor at its end, and
\* release_all empties it; a creation request that fails leaves it as it is,
\* and acquire then returns None
C19_OnlyAcquireAndRelease ==
    [][/\ acquired_sandboxes' # acquired_sandboxes =>
             \/ op' = "release_all" /\ acquired_sandboxes' = <<>>
             \/ /\ IssuesCreation
                /\ http_log'[Len(http_log')].method = "POST"
                /\ http_log'[Len(http_log')].status = "json"
                /\ Len(acquired_sandboxes') = Len(acquired_sandboxes) + 1
                /\ SubSeq(acquired_sandboxes', 1, Len(acquired_sandboxes))
                      = acquired_sandboxes
       /\ IssuesCreation =>
             IF http_log'[Len(http_log')].status = "json"
             THEN Len(acquired_sandboxes') = Len(acquired_sandboxes) + 1
             ELSE /\ acquired_sandboxes' = acquired_sandboxes
                  /\ op' = "acquire" => ret' = None]_vars

\* an acquire that failed on a session tracking one sandbox, which is still
\* the one tracked
C19_Witness ==
    /\ op = "acquire"
    /\ ret = None
    /\ http_log[1].status = "transport"
    /\ Len(acquired_sandboxes) = 1
    /\ SandboxIdOf(acquired_sandboxes[1]) = 1

(***************************************************************************)
(* Properties of one acquire_for_servers call (SpecMany)                   *)
(***************************************************************************)
\* acquire_for_servers has returned
Returned == op = "acquire_for_servers" /\ pc = "idle"

\* the requested names, and those of them acquired through local_dev
Requested == {server_names[i] : i \in 1..Len(server_names)}
Grouped == Requested \cap LOCAL_DEV_SERVER_NAMES

\* the key of the local_dev response a grouped name is looked up under, and
\* the resource type another name is requested as
RemoteNameOf(n) == GetOrSelf(LOCAL_DEV_TASK_TO_REMOTE_NAME, n)
SandboxNameOf(n) == GetOrSelf(TASK_SERVER_TO_SANDBOX_NAME, n)

\* the position in http_log of the creation request made for a requested
\* name: the first for a grouped name, then one per other name in order
CallOf(n) ==
    IF n \in LOCAL_DEV_SERVER_NAMES THEN 1
    ELSE (IF Grouped = {} THEN 0 ELSE 1)
         + Cardinality({i \in 1..Len(server_names) :
                          /\ server_names[i] \notin LOCAL_DEV_SERVER_NAMES
                          /\ \E j \in i..Len(server_names) : server_names[j] = n})

\* the acquisition call for the name returned no descriptor
CallFailed(n) == http_log[CallOf(n)].status # "json"

\* the server_urls of the response to the k-th request of a call on a fresh
\* session (the k-th request got a JSON body)
UrlsOfCall(k) ==
    ServerUrlsOf(acquired_sandboxes[
        Cardinality({i \in 1..k : http_log[i].status = "json"})])

\* the key under which the response for a name carries that name's URL
ExpectedKey(n) ==
    IF n \in LOCAL_DEV_SERVER_NAMES THEN RemoteNameOf(n) ELSE SandboxNameOf(n)

\* the acquisition for the name succeeded with a URL for it
SucceededWithUrl(n) ==
    /\ ~CallFailed(n)
    /\ HasKey(UrlsOfCall(CallOf(n)), ExpectedKey(n))

OwnUrl(n) == UrlOf(UrlsOfCall(CallOf(n)), ExpectedKey(n))

\* C4: when the acquisition call for a requested name X fails, the returned
\* map has no entry for X, and every other requested name acquired with a URL
\* is in the map with its own URL
C4_PartialFailureIsolated ==
    Returned =>
        \A X \in Requested :
            CallFailed(X) =>
                /\ X \notin DOMAIN overrides
                /\ \A Y \in Requested \ {X} :
                      SucceededWithUrl(Y) =>
                          Y \in DOMAIN overrides /\ overrides[Y] = OwnUrl(Y)

\* the creation requests of the log for the resource type
RequestsFor(type) ==
    {i \in 1..Len(http_log) :
        http_log[i].method = "POST" /\ http_log[i].server_name = type}

\* C5 as stated: a call that requests at least one local_dev name issues
\* exactly one creation request for the resource type local_dev
C5_OneLocalDevRequest ==
    (Returned /\ Grouped # {}) => Cardinality(RequestsFor("local_dev")) = 1

\* C5, amended: a call that requests at least one local_dev name issues one
\* creation request for all of them together, for local_dev and before any
\* other; every further request is for one name outside
\* LOCAL_DEV_SERVER_NAMES, so further local_dev requests are for the
\* requested names outside the set that resolve to local_dev
C5_OneSharedRequest ==
    (Returned /\ Grouped # {}) =>
        LET others == {i \in 1..Len(server_names) :
                          server_names[i] \notin LOCAL_DEV_SERVER_NAMES}
        IN /\ http_log[1].method = "POST"
           /\ http_log[1].server_name = "local_dev"
           /\ Len(http_log) = 1 + Cardinality(others)
           /\ Cardinality(RequestsFor("local_dev"))
                = 1 + Cardinality({i \in others :
                                     SandboxNameOf(server_names[i]) = "local_dev"})

\* three local_dev names requested, one request made, and it failed
C5_Witness ==
    /\ Returned
    /\ Requested = {"filesystem", "terminal", "python_execute"}
    /\ Len(http_log) = 1
    /\ http_log[1].status = "non2xx"

\* C6: a call that requests no local_dev name issues one creation request
\* per requested name, in order, each for the resource type the table gives
\* (the name itself by default), whether or not requests fail
C6_OneRequestPerName ==
    (Returned /\ Grouped = {}) =>
        /\ Len(http_log) = Len(server_names)
        /\ \A i \in 1..Len(server_names) :
              /\ http_log[i].method = "POST"
              /\ http_log[i].server_name = SandboxNameOf(server_names[i])

\* emails, notion and local_dev requested: three requests, the one for
\* emails to poste_email_toolathlon, the first of them failed
C6_Witness ==
    /\ Returned
    /\ Len(server_names) = 3
    /\ Grouped = {}
    /\ "emails" \in Requested
    /\ Len(http_log) = 3
    /\ http_log[1].status = "non2xx"
    /\ http_log[3].status = "json"

\* every acquisition succeeded: the local_dev response lists the remote name
\* of every requested grouped name, and the response for every other name
\* is a URL map keyed by its resource type alone
AllSucceeded ==
    \A n \in Requested :
        /\ SucceededWithUrl(n)
        /\ n \notin LOCAL_DEV_SERVER_NAMES =>
              \A i \in 1..Len(UrlsOfCall(CallOf(n))) :
                  UrlsOfCall(CallOf(n))[i].name = SandboxNameOf(n)

\* C7: when every acquisition succeeds the returned map has exactly the
\* requested names as keys, each with the URL of its own response; and
\* requesting filesystem, terminal and emails makes the two creation
\* requests local_dev and poste_email_toolathlon
C7_KeysAreRequestedNames ==
    Returned =>
        /\ AllSucceeded =>
              /\ DOMAIN overrides = Requested
              /\ \A n \in Requested : overrides[n] = OwnUrl(n)
        /\ Requested = {"filesystem", "terminal", "emails"} =>
              /\ Len(http_log) = 2
              /\ http_log[1].server_name = "local_dev"
              /\ http_log[2].server_name = "poste_email_toolathlon"

\* filesystem, terminal and emails requested and acquired
C7_Witness ==
    /\ Returned
    /\ Requested = {"filesystem", "terminal", "emails"}
    /\ AllSucceeded
    /\ DOMAIN overrides = {"filesystem", "terminal", "emails"}

\* C9: every creation request of acquire_for_servers that returned a
\* descriptor has that descriptor in acquired_sandboxes, in request order,
\* whatever its server_urls map holds
C9_RecordThenPopulate ==
    op = "acquire_for_servers" =>
        LET ok == {i \in 1..Len(http_log) : http_log[i].status = "json"}
        IN /\ Len(acquired_sandboxes) = Cardinality(ok)
           /\ \A i \in ok :
                 LET d == acquired_sandboxes[
                            Cardinality({j \in ok : j <= i})]
                 IN ServerNameOf(d) = http_log[i].server_name

\* two sandboxes tracked, one with no server_urls at all and one whose map
\* is empty or lacks the expected key, and no entry in the returned map
C9_Witness ==
    /\ Returned
    /\ Len(http_log) = 2
    /\ Len(acquired_sandboxes) = 2
    /\ \E i \in 1..2 : "server_urls" \notin DOMAIN acquired_sandboxes[i]
    /\ \E i \in 1..2 : /\ "server_urls" \in DOMAIN acquired_sandboxes[i]
                       /\ acquired_sandboxes[i].server_urls # <<>>
    /\ overrides = EmptyDict

\* the key an entry of the response for the ungrouped name n is stored under
KeyFor(n, sname) == IF sname = SandboxNameOf(n) THEN n ELSE sname

\* the dict after the entries of urls are stored for the ungrouped name n
RECURSIVE StorePairs(_, _, _)
StorePairs(n, urls, dict) ==
    IF urls = <<>> THEN dict
    ELSE StorePairs(n, Tail(urls),
            SetItem(dict, KeyFor(n, Head(urls).name), Head(urls).url))

\* the entries of the response for the ungrouped name n: none when its call
\* failed
PairsOf(n) == IF CallFailed(n) THEN <<>> ELSE UrlsOfCall(CallOf(n))

\* the dict after the responses for the ungrouped names are stored in
\* order, every entry of a response or the first one alone
RECURSIVE StoreOthers(_, _, _)
StoreOthers(names, dict, firstOnly) ==
    IF names = <<>> THEN dict
    ELSE LET n == Head(names)
             pairs == IF firstOnly /\ PairsOf(n) # <<>>
                      THEN <<Head(PairsOf(n))>> ELSE PairsOf(n)
         IN StoreOthers(Tail(names), StorePairs(n, pairs, dict), firstOnly)

\* the entries of the grouped pass: every requested grouped name the
\* local_dev response has a URL for
GroupedEntries ==
    [g \in {n \in Grouped : SucceededWithUrl(n)} |-> OwnUrl(g)]

\* C15 as stated: for each ungrouped name the returned map gets the first
\* entry of the response alone, under the requested name when the response
\* key is the resolved resource type and under the response key otherwise
C15_FirstPairOnly ==
    Returned =>
        overrides = StoreOthers(other_servers(server_names), GroupedEntries, TRUE)

\* C15, amended: for each ungrouped name the returned map gets every entry
\* of the response, in the order of the response, each under the requested
\* name when its key is the resolved resource type and under its own key
\* otherwise; a response with one entry adds exactly one entry
C15_EveryPair ==
    Returned =>
        overrides = StoreOthers(other_servers(server_names), GroupedEntries, FALSE)

\* notion requested alone; its response lists notion and then emails, and
\* the returned map has both entries
C15_Witness ==
    /\ Returned
    /\ server_names = <<"notion">>
    /\ ~CallFailed("notion")
    /\ Len(PairsOf("notion")) = 2
    /\ PairsOf("notion")[1].name = "notion"
    /\ DOMAIN overrides = {"notion", "emails"}
    /\ overrides["notion"] = PairsOf("notion")[1].url
    /\ overrides["emails"] = PairsOf("notion")[2].url

\* C16: in the grouped pass a requested grouped name whose remote name the
\* local_dev response does not list gets no entry and stops nothing: right
\* after the pass the map holds exactly the requested grouped names whose
\* remote name is listed, each with the URL listed, and the call goes on to
\* one creation request per ungrouped name
C16_AbsentKeySkipped ==
    (op = "acquire_for_servers" /\ Grouped # {} /\ Len(http_log) >= 1
        /\ http_log[1].status = "json") =>
        LET api_urls == ServerUrlsOf(acquired_sandboxes[1])
            present == {g \in Grouped : HasKey(api_urls, RemoteNameOf(g))}
        IN /\ Len(http_log) = 1 =>
                 /\ DOMAIN overrides = present
                 /\ \A g \in present :
                       overrides[g] = UrlOf(api_urls, RemoteNameOf(g))
           /\ present \subseteq DOMAIN overrides
           /\ Returned =>
                 Len(http_log) = 1 + Len(other_servers(server_names))

\* python_execute, filesystem and emails requested; the local_dev response
\* lists filesystem but not code-executor; filesystem and emails are in the
\* returned map and python_execute is not
C16_Witness ==
    /\ Returned
    /\ server_names = <<"python_execute", "filesystem", "emails">>
    /\ http_log[1].status = "json"
    /\ ~HasKey(ServerUrlsOf(acquired_sandboxes[1]), "code-executor")
    /\ HasKey(ServerUrlsOf(acquired_sandboxes[1]), "filesystem")
    /\ Len(http_log) = 2
    /\ DOMAIN overrides = {"filesystem", "emails"}

(***************************************************************************)
(* Properties of the workspace transfer (SpecSync)                         *)
(***************************************************************************)
\* an upload function runs or ran last
Uploading == sync_op \in {"upload_workspace", "upload_workspace_tarball"}

\* the requests of an upload and of a download, in order
UploadSteps ==
    <<SyncRequest("POST", "upload-url", "ok"),
      SyncRequest("PUT", "upload_url", "ok"),
      SyncRequest("POST", "initialize", "ok")>>

DownloadSteps ==
    <<SyncRequest("GET", "dump", "ok"),
      SyncRequest("GET", "download_url", "ok")>>

\* the log is a run of the steps from the first on, one request per step,
\* every request but the last one successful
FollowsSteps(log, steps) ==
    /\ Len(log) <= Len(steps)
    /\ \A i \in 1..Len(log) :
          /\ log[i].method = steps[i].method
          /\ log[i].path = steps[i].path
          /\ i < Len(log) => log[i].status = "ok"

\* the last request of the log failed
LastFailed(log) == log # <<>> /\ log[Len(log)].status # "ok"

\* C11: an upload issues the upload-url POST, the PUT and the initialize
\* POST in this order, each at most once and each only after the one before
\* succeeded; when a request fails the upload is over, with an exception
C11_UploadFailFast ==
    Uploading =>
        /\ FollowsSteps(sync_log, UploadSteps)
        /\ LastFailed(sync_log) => (sync_pc = "idle" /\ sync_ret = Raised)

\* an upload_workspace_tarball whose PUT got a non-2xx status: two requests,
\* no initialize, an exception
C11_Witness ==
    /\ sync_op = "upload_workspace_tarball"
    /\ Len(sync_log) = 2
    /\ sync_log[2].status = "non2xx"
    /\ sync_pc = "idle"
    /\ sync_ret = Raised

\* C12: upload_workspace of a directory without files and
\* upload_workspace_tarball of a file without bytes return at once a dict
\* with status "idle", issue no request and leave the sandbox as it is
C12_NothingToUpload ==
    [][(\/ sync_op' = "upload_workspace" /\ directory' = NoFiles
        \/ sync_op' = "upload_workspace_tarball" /\ content' = NoBytes) =>
         /\ sync_log' = <<>>
         /\ sync_pc' = "idle"
         /\ sync_ret'.kind = "dict"
         /\ sync_ret'.value.status = "idle"
         /\ pod' = pod]_vars

\* upload_workspace of a directory without files has returned, the sandbox
\* still holding the members it held
C12_Witness ==
    /\ sync_op = "upload_workspace"
    /\ directory = NoFiles
    /\ sync_ret = Idle("No files to upload")
    /\ sync_log = <<>>
    /\ pod.kind = "gz"
    /\ Len(pod.entries) = 2

\* download_workspace returned, right after an upload_workspace that
\* returned
RoundTrip ==
    /\ sync_op = "download_workspace"
    /\ sync_pc = "idle"
    /\ sync_ret = None
    /\ uploaded # <<>>

\* C13 as stated: for every directory, upload_workspace followed by
\* download_workspace into an empty directory leaves there the files of the
\* uploaded directory, same relative paths and same contents
C13_RoundTripEveryTree ==
    RoundTrip => target.files = uploaded[1]

\* C13, amended: the same for every directory that holds at least one file;
\* and then the download does not fail once both its requests succeeded
C13_RoundTripOfFiles ==
    (sync_op = "download_workspace" /\ uploaded # <<>>
        /\ uploaded[1] # NoFiles) =>
        /\ RoundTrip => (target.files = uploaded[1] /\ outside = {})
        /\ (Len(sync_log) = 2 /\ ~LastFailed(sync_log)) => RoundTrip

\* a directory with a.txt and d/b.txt of different contents came back
C13_Witness ==
    /\ RoundTrip
    /\ DOMAIN uploaded[1] = {<<"a.txt">>, <<"d", "b.txt">>}
    /\ uploaded[1][<<"a.txt">>] # uploaded[1][<<"d", "b.txt">>]
    /\ target.files = uploaded[1]

\* the member name climbs out of the destination directory
Climbs(name) == ~Resolve(name, <<>>).inside

\* the archive GET of the download succeeded and served an archive
Extracted ==
    /\ sync_op = "download_workspace"
    /\ Len(sync_log) = 2
    /\ ~LastFailed(sync_log)
    /\ pod.kind = "gz"

\* C14: download_workspace writes no file outside its directory: the files
\* it leaves are under the directory, and an archive with a member whose
\* name climbs out of the directory makes the download raise, that member
\* and those after it unwritten
C14_NothingOutside ==
    /\ outside = {}
    /\ \A q \in DOMAIN target.files :
          \A i \in 1..Len(q) : q[i] \notin {"..", "/"}
    /\ Extracted =>
          LET climbing == {i \in 1..Len(pod.entries) : Climbs(pod.entries[i].name)}
          IN climbing # {} =>
                /\ sync_ret = Raised
                /\ Cardinality(DOMAIN target.files)
                     < CHOOSE i \in climbing : \A j \in climbing : i <= j

\* the sandbox served a.txt followed by ../../etc/passwd: a.txt is written,
\* the download raised, nothing is outside the directory
C14_Witness ==
    /\ Extracted
    /\ Len(pod.entries) = 2
    /\ pod.entries[1].name = <<"a.txt">>
    /\ pod.entries[2].name = <<"..", "..", "etc", "passwd">>
    /\ sync_ret = Raised
    /\ DOMAIN target.files = {<<"a.txt">>}
    /\ outside = {}

====
